---- MODULE Spec2Model ----
(***************************************************************************)
(* Model of the `ir` process supervisor: the launch-and-supervise loop of  *)
(* src/main.rs and the framed descriptor IO of src/fdio.rs.                *)
(*                                                                         *)
(* Specifications of the module:                                           *)
(*   Spec       the supervisor (main) together with the children it forks, *)
(*              the error pipe and the selector;                           *)
(*   FairSpec   Spec with the parent and the children scheduled fairly;    *)
(*   SpecFrame  write_str / read_str over one pipe with several writers.   *)
(*                                                                         *)
(* Assumptions on what lies outside src/: the error pipe's write end is    *)
(* released by a successful execve; a pipe write of one frame part is      *)
(* atomic and complete.  An FdManager may open a file when it is built;    *)
(* the file then takes the lowest free fd number, which is the number of   *)
(* err_w once the parent has closed err_w.                                 *)
(*                                                                         *)
(* A Rust `String` is represented by the sequence of its UTF-8 bytes.      *)
(***************************************************************************)
EXTENDS Integers, Sequences, FiniteSets, TLC

VARIABLES
    \* ---- the error pipe (both specifications)
    pipe,       \* bytes written and not yet read, oldest first
    \* ---- SpecFrame: writers and the reader of write_str / read_str
    wq0,        \* writer -> the frames it was asked to write (input, constant)
    wq,         \* writer -> frames not yet written
    wphase,     \* writer -> "len" | "payload" | "closed" | "failed"
    rphase,     \* reader: "len" | "payload" | "eof" | "oserr" | "panic"
    rlen,       \* reader: the length read_usize returned, while rphase = "payload"
    rgot,       \* reader: the strings read_str returned Ok, in order
    \* ---- Spec: the input and the environment
    specs,      \* input.procs: a sequence of [nfds, badkey] (constant)
    stray,      \* a child the supervisor inherited: "none" | "zombie" | "reaped"
    intr,       \* select has returned Interrupted, once or more
    \* ---- Spec: the supervisor (main in the parent process)
    pc,         \* the supervisor's position in main
    how,        \* once pc = "exited": the place in main that ended the process
    exit_code,  \* once pc = "exited": the process's exit code
    i,          \* launch loop: index into input.procs
    k,          \* index into fds in the loops over a child's FdManagers
    pfds,       \* the error pipe's ends that are open in the parent, and
                \* ErrWNum while err_w's number is open for another file
    readers,    \* selecter: fd -> Reader::Errors.errs, for every reader present
    read_fds,   \* selecter: the fds select watches
    rd_len,     \* the length read while the Errors handler is inside read_str
    procs,      \* procs: the pids of the LiveProc table
    forked,     \* the pids fork returned to the parent, in order
    proc,       \* reap: the pid of the Proc removed from procs
    proc_res,   \* reap: proc_res.fds, fd -> "result" | "None"
    result,     \* result: [procs: sequence of ProcRes, errors: sequence of strings]
    \* ---- Spec: the forked children
    child,      \* spec index -> the child process forked for it
    chan        \* the frames the children wrote to the error pipe, in order

fvars == <<wq0, wq, wphase, rphase, rlen, rgot>>

envvars == <<specs, stray, intr>>

selvars == <<readers, read_fds, rd_len>>

mvars == <<pc, how, exit_code, i, k, pfds, selvars, procs, forked, proc, proc_res, result>>

cvars == <<child, chan>>

svars == <<envvars, mvars, cvars>>

vars == <<pipe, fvars, svars>>

(***************************************************************************)
(* Bounds of the model.                                                    *)
(***************************************************************************)
MaxStrLen == 1      \* characters per string in SpecFrame
MaxFrames == 2      \* frames written in one run of SpecFrame, all writers together
MaxProcs == 2       \* ProcSpecs in the input
MaxFds == 2         \* fd entries in the input, all ProcSpecs together

(***************************************************************************)
(* Program constants.                                                      *)
(***************************************************************************)
UsizeBytes == 8     \* width of the length prefix: [u8; 8], usize::to_ne_bytes
ExitOK == 0         \* exitcode::OK
ExitErrors == 1     \* main's exit code when result.errors is not empty
ExitOSERR == 71     \* exitcode::OSERR
ExitPanic == 101    \* the exit code of a Rust process whose main thread panicked

(***************************************************************************)
(* Small helpers.                                                          *)
(***************************************************************************)
Min(a, b) == IF a < b THEN a ELSE b

Take(s, n) == SubSeq(s, 1, Min(n, Len(s)))

Drop(s, n) == SubSeq(s, Min(n, Len(s)) + 1, Len(s))

RECURSIVE Flatten(_)
Flatten(ss) == IF ss = <<>> THEN <<>> ELSE Head(ss) \o Flatten(Tail(ss))

\* number of positions of sequence s holding x
Count(s, x) == Cardinality({n \in DOMAIN s : s[n] = x})

\* s and t hold the same elements the same number of times
IsPermutation(s, t) ==
    /\ Len(s) = Len(t)
    /\ \A n \in DOMAIN s : Count(s, s[n]) = Count(t, s[n])

\* the sequences over S of length at most n
RECURSIVE SeqsUpTo(_, _)
SeqsUpTo(S, n) ==
    IF n = 0 THEN {<<>>}
    ELSE SeqsUpTo(S, n - 1) \cup
         {s \o <<x>> : s \in {y \in SeqsUpTo(S, n - 1) : Len(y) = n - 1}, x \in S}

IsPrefix(s, t) == Len(s) <= Len(t) /\ s = SubSeq(t, 1, Len(s))

(***************************************************************************)
(* usize <-> native-endian bytes (little-endian host).  A decoded value of *)
(* 2^24 or more is reported as Huge: it exceeds every amount of data the   *)
(* bounded pipe can hold, and the model's integers are 32 bits wide.       *)
(***************************************************************************)
Huge == 256 * 256 * 256

RECURSIVE to_ne_bytes_n(_, _)
to_ne_bytes_n(val, n) ==
    IF n = 0 THEN <<>> ELSE <<val % 256>> \o to_ne_bytes_n(val \div 256, n - 1)

to_ne_bytes(val) == to_ne_bytes_n(val, UsizeBytes)

RECURSIVE from_ne_bytes(_)
from_ne_bytes(data) ==
    IF data = <<>> THEN 0
    ELSE LET hi == from_ne_bytes(Tail(data))
         IN  IF hi >= Huge \div 256 THEN Huge ELSE Head(data) + 256 * hi

(***************************************************************************)
(* String::from_utf8_lossy(&buf).to_string(): well-formed one- and         *)
(* two-byte sequences are kept, any other byte becomes U+FFFD (EF BF BD).  *)
(* (Three- and four-byte sequences do not occur within the bounds.)        *)
(***************************************************************************)
IsCont(b) == b >= 128 /\ b <= 191

RECURSIVE from_utf8_lossy(_)
from_utf8_lossy(buf) ==
    IF buf = <<>> THEN <<>>
    ELSE IF buf[1] < 128 THEN <<buf[1]>> \o from_utf8_lossy(Tail(buf))
    ELSE IF buf[1] >= 194 /\ buf[1] <= 223 /\ Len(buf) >= 2 /\ IsCont(buf[2])
         THEN <<buf[1], buf[2]>> \o from_utf8_lossy(Drop(buf, 2))
    ELSE <<239, 191, 189>> \o from_utf8_lossy(Tail(buf))

(***************************************************************************)
(* The kernel's side of read(2) and write(2) on a pipe.                    *)
(***************************************************************************)
\* read(fd, buf, len) on a pipe holding p returns at once when len = 0 or
\* data is there or no write end is open; otherwise it blocks
SysReadReady(p, len, writers_open) == len = 0 \/ p /= <<>> \/ ~writers_open

\* the number of bytes read(fd, buf, len) delivers
SysRead(p, len) == Min(len, Len(p))

\* write(fd, data) of a frame part (at most PIPE_BUF) is atomic and complete
SysWrite(data) == Len(data)

(***************************************************************************)
(* fdio.rs                                                                 *)
(***************************************************************************)
\* fdio::read with the arms 0 => Eof and n == len exchanged
read_mut(n, len) ==
    IF n = 0 THEN "Eof" ELSE IF n = len THEN "Ok" ELSE "panic"

\* fdio::read: the match on the count sys::read returned
read(n, len) ==
    IF n = len THEN "Ok" ELSE IF n = 0 THEN "Eof" ELSE "panic"

\* fdio::read_usize: the match on the count libc::read(fd, data, 8) returned
read_usize(n, data) ==
    CASE n = -1         -> [tag |-> "OsErr", val |-> 0]
      [] n = 0          -> [tag |-> "Eof",   val |-> 0]
      [] n = UsizeBytes -> [tag |-> "Ok",    val |-> from_ne_bytes(data)]
      [] OTHER          -> [tag |-> "panic", val |-> 0]

\* fdio::write: the match on the count sys::write returned
write(n, len) ==
    IF n = len THEN "Ok" ELSE IF n = 0 THEN "Eof" ELSE "panic"

\* fdio::write_usize: the bytes handed to write
write_usize(val) == to_ne_bytes(val)

(***************************************************************************)
(* Spec: main.rs.  The input is a list of ProcSpecs; of a ProcSpec the     *)
(* model keeps the number of its fd entries (its FdManagers manage fds     *)
(* 1..nfds) and whether one of its fd keys fails to parse.  The FdManager  *)
(* hooks are opaque: each call returns any result its signature allows.    *)
(***************************************************************************)
ErrR == "err_r"

ErrW == "err_w"

\* the fd number of err_w, while it is open for a file that is not the pipe
ErrWNum == "err_w_num"

ProcSpecs == {[nfds |-> n, badkey |-> b] : n \in 0..MaxFds, b \in BOOLEAN}

\* the number of fd entries of the ProcSpecs of ps
RECURSIVE NumFds(_)
NumFds(ps) == IF ps = <<>> THEN 0 ELSE Head(ps).nfds + NumFds(Tail(ps))

\* a key that fails to parse is one of the fd entries
Inputs ==
    {ps \in SeqsUpTo({p \in ProcSpecs : p.badkey => p.nfds > 0}, MaxProcs) :
        NumFds(ps) <= MaxFds}

Children == 1..MaxProcs

\* the pid fork returns for the child of ProcSpec j; PidOf(0) is the stray child
PidOf(j) == j + 1

IndexOf(pid) == pid - 1

\* format!("failed to set up fd {}: {}", fd, err), shortened to "S<fd>"
MsgSetUp(fd) == <<83, 48 + fd>>

\* format!("exec: {}: {}", exe, err), shortened to "E"
MsgExec == <<69>>

\* format!("failed to clean up fd {}: {}", fd, err), shortened to "C<fd>"
MsgCleanUp(fd) == <<67, 48 + fd>>

NoChild ==
    [st |-> "none", k |-> 0, ok |-> TRUE, err_r |-> FALSE, err_w |-> FALSE,
     alias |-> FALSE, pend |-> <<>>, code |-> -1,
     setups |-> 0, fails |-> 0, frames |-> 0, execs |-> 0, exec_failed |-> FALSE,
     cleanups |-> 0]

IdleSupervisor ==
    /\ specs = <<>>
    /\ stray = "none"
    /\ intr = FALSE
    /\ pc = "idle"
    /\ how = ""
    /\ exit_code = -1
    /\ i = 0
    /\ k = 0
    /\ pfds = {}
    /\ readers = <<>>
    /\ read_fds = {}
    /\ rd_len = 0
    /\ procs = {}
    /\ forked = <<>>
    /\ proc = 0
    /\ proc_res = <<>>
    /\ result = [procs |-> <<>>, errors |-> <<>>]
    /\ child = [j \in Children |-> NoChild]
    /\ chan = <<>>

IdleFrame ==
    /\ wq0 = <<>>
    /\ wq = <<>>
    /\ wphase = <<>>
    /\ rphase = "idle"
    /\ rlen = 0
    /\ rgot = <<>>

\* the state when main has loaded its input (main.rs:33) and result is new.
\* The process has a terminated child it did not fork: wait4(-1) may return it
\* at any call, or never before the wait loop is over.
Init ==
    /\ pipe = <<>>
    /\ IdleFrame
    /\ specs \in Inputs
    /\ stray = "zombie"
    /\ intr = FALSE
    /\ pc = "start"
    /\ how = ""
    /\ exit_code = -1
    /\ i = 1
    /\ k = 0
    /\ pfds = {}
    /\ readers = [fd \in {} |-> <<>>]
    /\ read_fds = {}
    /\ rd_len = 0
    /\ procs = {}
    /\ forked = <<>>
    /\ proc = 0
    /\ proc_res = [fd \in {} |-> ""]
    /\ result = [procs |-> <<>>, errors |-> <<>>]
    /\ child = [j \in Children |-> NoChild]
    /\ chan = <<>>

\* the process ends at place h of main with exit code c
Exit(h, c) ==
    /\ pc' = "exited"
    /\ how' = h
    /\ exit_code' = c

\* some process holds the write end of the error pipe open
WriteEndOpen == ErrW \in pfds \/ \E j \in Children : child[j].err_w

(***************************************************************************)
(* sel.rs: the Selecter.  `readers` holds the Reader of every fd inserted  *)
(* and not removed; `read_fds` the fds select watches.  The Errors handler *)
(* stops watching its fd at end of file and leaves its Reader in place for *)
(* remove_reader to return.                                                *)
(***************************************************************************)
\* Selecter::insert_reader(fd, Reader::Errors { errs: Vec::new() })
insert_reader(fd) ==
    /\ readers' = [f \in DOMAIN readers \cup {fd} |->
                      IF f = fd THEN <<>> ELSE readers[f]]
    /\ read_fds' = read_fds \cup {fd}

\* Selecter::remove_reader(fd), for a fd that is present
remove_reader(fd) ==
    /\ readers' = [f \in DOMAIN readers \ {fd} |-> readers[f]]
    /\ read_fds' = read_fds \ {fd}

\* Selecter::any()
any == read_fds /= {}

(***************************************************************************)
(* main: the error pipe and the launch loop.                               *)
(***************************************************************************)
\* main.rs:42-55: sys::pipe(), Selecter::new(), insert_reader
CreateErrPipe ==
    /\ pc = "start"
    /\ \/ /\ pfds' = {ErrR, ErrW}
          /\ insert_reader(ErrR)
          /\ pc' = "launch"
          /\ UNCHANGED <<how, exit_code>>
       \/ /\ Exit("pipe", ExitOSERR)
          /\ UNCHANGED <<pfds, readers, read_fds>>
    /\ UNCHANGED <<pipe, fvars, envvars, i, k, rd_len, procs, forked, proc, proc_res,
                   result, cvars>>

\* main.rs:56-69: the next ProcSpec; parse_fd and create_fd for its fd entries.
\* An FdManager that create_fd builds may open a file; when err_w is closed
\* the file gets the number err_write_fd still holds.
BuildFds ==
    /\ pc = "launch"
    /\ i <= Len(specs)
    /\ \/ /\ specs[i].badkey
          /\ Exit("parse_fd", ExitOSERR)
          /\ UNCHANGED pfds
       \/ /\ ~specs[i].badkey
          /\ specs[i].nfds > 0
          /\ Exit("create_fd", ExitPanic)
          /\ UNCHANGED pfds
       \/ /\ ~specs[i].badkey
          /\ pc' = "fork"
          /\ \/ UNCHANGED pfds
             \/ /\ specs[i].nfds > 0
                /\ ErrW \notin pfds
                /\ pfds' = pfds \cup {ErrWNum}
          /\ UNCHANGED <<how, exit_code>>
    /\ UNCHANGED <<pipe, fvars, envvars, i, k, selvars, procs, forked, proc,
                   proc_res, result, cvars>>

\* main.rs:56, 126-128: the for loop over input.procs is over
LaunchDone ==
    /\ pc = "launch"
    /\ i > Len(specs)
    /\ pc' = "select"
    /\ UNCHANGED <<pipe, fvars, envvars, how, exit_code, i, k, pfds, selvars, procs,
                   forked, proc, proc_res, result, cvars>>

\* main.rs:71-76: sys::fork(); the child starts with a copy of the parent's fds
Fork ==
    /\ pc = "fork"
    /\ \/ /\ forked' = Append(forked, PidOf(i))
          /\ child' = [child EXCEPT ![i] =
                          [NoChild EXCEPT !.st = "start",
                                          !.err_r = ErrR \in pfds,
                                          !.err_w = ErrW \in pfds,
                                          !.alias = ErrWNum \in pfds]]
          /\ pc' = "close_err_w"
          /\ UNCHANGED <<how, exit_code>>
       \/ /\ Exit("fork", ExitPanic)
          /\ UNCHANGED <<forked, child>>
    /\ UNCHANGED <<pipe, fvars, envvars, i, k, pfds, selvars, procs, proc, proc_res,
                   result, chan>>

\* sys.rs:62-69: sys::close(fd) in the parent: Ok when the number of fd is
\* open, else EBADF
close(fd) ==
    IF fd \in pfds \/ (fd = ErrW /\ ErrWNum \in pfds) THEN "Ok" ELSE "Err"

\* main.rs:116-117: sys::close(err_write_fd).unwrap(); the close releases
\* whatever file the number refers to
CloseErrW ==
    /\ pc = "close_err_w"
    /\ IF close(ErrW) = "Ok"
       THEN /\ pfds' = pfds \ {ErrW, ErrWNum}
            /\ pc' = "set_up_in_parent"
            /\ k' = 1
            /\ UNCHANGED <<how, exit_code>>
       ELSE /\ Exit("close", ExitPanic)
            /\ UNCHANGED <<pfds, k>>
    /\ UNCHANGED <<pipe, fvars, envvars, i, selvars, procs, forked, proc, proc_res,
                   result, cvars>>

\* set_up_in_parent(..).unwrap(): a failed setup ends the supervisor
SetUpInParent_mut ==
    /\ pc = "set_up_in_parent"
    /\ k <= specs[i].nfds
    /\ \E r \in {"Ok", "Err"} :
          IF r = "Ok"
          THEN /\ k' = k + 1
               /\ UNCHANGED <<pc, how, exit_code>>
          ELSE /\ Exit("set_up_in_parent", ExitPanic)
               /\ UNCHANGED k
    /\ UNCHANGED <<pipe, fvars, envvars, i, pfds, selvars, procs, forked, proc,
                   proc_res, result, cvars>>

\* main.rs:119-123: one fd.set_up_in_parent(&mut selecter)
SetUpInParent ==
    /\ pc = "set_up_in_parent"
    /\ k <= specs[i].nfds
    /\ \E r \in {"Ok", "Err"} :
          result' = IF r = "Ok" THEN result
                    ELSE [result EXCEPT !.errors = Append(@, MsgSetUp(k))]
    /\ k' = k + 1
    /\ UNCHANGED <<pipe, fvars, envvars, pc, how, exit_code, i, pfds, selvars, procs,
                   forked, proc, proc_res, cvars>>

\* main.rs:125: procs.insert(child_pid, Proc {..})
InsertProc ==
    /\ pc = "set_up_in_parent"
    /\ k > specs[i].nfds
    /\ procs' = procs \cup {PidOf(i)}
    /\ i' = i + 1
    /\ pc' = "launch"
    /\ UNCHANGED <<pipe, fvars, envvars, how, exit_code, k, pfds, selvars, forked,
                   proc, proc_res, result, cvars>>

(***************************************************************************)
(* main: the select loop.  select(None) blocks until a watched fd is       *)
(* readable and runs its handler; err_r is readable when the pipe holds    *)
(* data or no process holds its write end.                                 *)
(***************************************************************************)
\* main.rs:130: while selecter.any() is over
SelectLoopDone ==
    /\ pc = "select"
    /\ ~any
    /\ pc' = "wait"
    /\ UNCHANGED <<pipe, fvars, envvars, how, exit_code, i, k, pfds, selvars, procs,
                   forked, proc, proc_res, result, cvars>>

\* main.rs:131-134: select runs the Errors handler, which calls read_str:
\* read_usize
SelectErrors ==
    /\ pc = "select"
    /\ any
    /\ ErrR \in read_fds
    /\ SysReadReady(pipe, UsizeBytes, WriteEndOpen)
    /\ LET n == SysRead(pipe, UsizeBytes)
           r == read_usize(n, Take(pipe, n))
       IN  /\ pipe' = Drop(pipe, n)
           /\ CASE r.tag = "Ok" ->
                     /\ pc' = "read_err"
                     /\ rd_len' = r.val
                     /\ UNCHANGED <<how, exit_code, read_fds>>
                [] r.tag = "Eof" ->
                     /\ read_fds' = read_fds \ {ErrR}
                     /\ UNCHANGED <<pc, how, exit_code, rd_len>>
                [] OTHER ->
                     /\ Exit("read_str", ExitPanic)
                     /\ UNCHANGED <<read_fds, rd_len>>
    /\ UNCHANGED <<fvars, envvars, i, k, pfds, readers, procs, forked, proc, proc_res,
                   result, cvars>>

\* the Errors handler inside read_str: read(fd, &mut buf, len), from_utf8_lossy,
\* errs.push
SelectErrorsPayload ==
    /\ pc = "read_err"
    /\ SysReadReady(pipe, rd_len, WriteEndOpen)
    /\ LET n == SysRead(pipe, rd_len)
           r == read(n, rd_len)
       IN  /\ pipe' = Drop(pipe, n)
           /\ CASE r = "Ok" ->
                     /\ readers' = [readers EXCEPT ![ErrR] =
                                       Append(@, from_utf8_lossy(Take(pipe, n)))]
                     /\ pc' = "select"
                     /\ UNCHANGED <<how, exit_code, read_fds>>
                [] r = "Eof" ->
                     /\ read_fds' = read_fds \ {ErrR}
                     /\ pc' = "select"
                     /\ UNCHANGED <<how, exit_code, readers>>
                [] OTHER ->
                     /\ Exit("read_str", ExitPanic)
                     /\ UNCHANGED <<readers, read_fds>>
    /\ rd_len' = 0
    /\ UNCHANGED <<fvars, envvars, i, k, pfds, procs, forked, proc, proc_res, result,
                   cvars>>

\* the select loop without the Interrupted arm: the error reaches panic!
SelectInterrupted_mut ==
    /\ pc = "select"
    /\ any
    /\ intr' = TRUE
    /\ Exit("select", ExitPanic)
    /\ UNCHANGED <<pipe, fvars, specs, stray, i, k, pfds, selvars, procs, forked, proc,
                   proc_res, result, cvars>>

\* main.rs:135-137: select returned Err of kind Interrupted
SelectInterrupted ==
    /\ pc = "select"
    /\ any
    /\ intr' = TRUE
    /\ UNCHANGED <<pipe, fvars, specs, stray, mvars, cvars>>

\* main.rs:138-140: select returned another Err
SelectFailed ==
    /\ pc = "select"
    /\ any
    /\ Exit("select", ExitPanic)
    /\ UNCHANGED <<pipe, fvars, envvars, i, k, pfds, selvars, procs, forked, proc,
                   proc_res, result, cvars>>

(***************************************************************************)
(* main: the wait loop.                                                    *)
(***************************************************************************)
\* the children of the supervisor that have terminated and are not reaped
Zombies ==
    {PidOf(j) : j \in {c \in Children : child[c].st = "zombie"}}
    \cup (IF stray = "zombie" THEN {PidOf(0)} ELSE {})

\* the kernel's side of wait4: the child is reaped
Reaped(pid) ==
    /\ stray' = IF pid = PidOf(0) THEN "reaped" ELSE stray
    /\ child' = IF pid = PidOf(0) THEN child
                ELSE [child EXCEPT ![IndexOf(pid)].st = "reaped"]

\* the wait loop without the arm for an unknown pid: procs.remove(..).unwrap()
Wait4_mut ==
    /\ pc = "wait"
    /\ procs /= {}
    /\ \E wait_pid \in Zombies :
          /\ Reaped(wait_pid)
          /\ IF wait_pid \notin procs
             THEN /\ Exit("procs.remove", ExitPanic)
                  /\ UNCHANGED <<k, readers, read_fds, procs, proc, proc_res, result>>
             ELSE /\ procs' = procs \ {wait_pid}
                  /\ proc' = wait_pid
                  /\ IF ErrR \in DOMAIN readers
                     THEN /\ remove_reader(ErrR)
                          /\ result' = [result EXCEPT !.errors = @ \o readers[ErrR]]
                          /\ proc_res' = [fd \in {} |-> ""]
                          /\ k' = 1
                          /\ pc' = "clean_up_in_parent"
                          /\ UNCHANGED <<how, exit_code>>
                     ELSE /\ Exit("remove_reader", ExitPanic)
                          /\ UNCHANGED <<k, readers, read_fds, proc_res, result>>
    /\ UNCHANGED <<pipe, fvars, specs, intr, i, pfds, rd_len, forked, chan>>

\* main.rs:145-167: wait4(-1) returns a terminated child; an unknown pid is
\* skipped; for a known one the Proc is removed and the errors of the error
\* pipe's reader are moved into result.errors
Wait4 ==
    /\ pc = "wait"
    /\ procs /= {}
    /\ \E wait_pid \in Zombies :
          /\ Reaped(wait_pid)
          /\ IF wait_pid \notin procs
             THEN UNCHANGED <<pc, how, exit_code, k, readers, read_fds, procs, proc,
                              proc_res, result>>
             ELSE /\ procs' = procs \ {wait_pid}
                  /\ proc' = wait_pid
                  /\ IF ErrR \in DOMAIN readers
                     THEN /\ remove_reader(ErrR)
                          /\ result' = [result EXCEPT !.errors = @ \o readers[ErrR]]
                          /\ proc_res' = [fd \in {} |-> ""]
                          /\ k' = 1
                          /\ pc' = "clean_up_in_parent"
                          /\ UNCHANGED <<how, exit_code>>
                     ELSE /\ Exit("remove_reader", ExitPanic)
                          /\ UNCHANGED <<k, readers, read_fds, proc_res, result>>
    /\ UNCHANGED <<pipe, fvars, specs, intr, i, pfds, rd_len, forked, chan>>

\* main.rs:148-149: wait4 returned Err; while the process has children the
\* error of wait4(-1, ..) is EINTR
Wait4Failed ==
    /\ pc = "wait"
    /\ procs /= {}
    /\ Exit("wait4", ExitPanic)
    /\ UNCHANGED <<pipe, fvars, envvars, i, k, pfds, selvars, procs, forked, proc,
                   proc_res, result, cvars>>

\* clean_up_in_parent whose Err arm inserts the sentinel and drops the message
CleanUpInParent_mut ==
    /\ pc = "clean_up_in_parent"
    /\ k <= specs[IndexOf(proc)].nfds
    /\ \E r \in {"Some", "None", "Err"} :
          CASE r = "Some" ->
                 /\ proc_res' = [fd \in DOMAIN proc_res \cup {k} |->
                                    IF fd = k THEN "result" ELSE proc_res[fd]]
                 /\ UNCHANGED result
            [] r = "None" ->
                 UNCHANGED <<proc_res, result>>
            [] OTHER ->
                 /\ proc_res' = [fd \in DOMAIN proc_res \cup {k} |->
                                    IF fd = k THEN "None" ELSE proc_res[fd]]
                 /\ UNCHANGED result
    /\ k' = k + 1
    /\ UNCHANGED <<pipe, fvars, envvars, pc, how, exit_code, i, pfds, selvars, procs,
                   forked, proc, cvars>>

\* main.rs:171-183: one fd.clean_up_in_parent(&mut selecter)
CleanUpInParent ==
    /\ pc = "clean_up_in_parent"
    /\ k <= specs[IndexOf(proc)].nfds
    /\ \E r \in {"Some", "None", "Err"} :
          CASE r = "Some" ->
                 /\ proc_res' = [fd \in DOMAIN proc_res \cup {k} |->
                                    IF fd = k THEN "result" ELSE proc_res[fd]]
                 /\ UNCHANGED result
            [] r = "None" ->
                 UNCHANGED <<proc_res, result>>
            [] OTHER ->
                 /\ proc_res' = [fd \in DOMAIN proc_res \cup {k} |->
                                    IF fd = k THEN "None" ELSE proc_res[fd]]
                 /\ result' = [result EXCEPT !.errors = Append(@, MsgCleanUp(k))]
    /\ k' = k + 1
    /\ UNCHANGED <<pipe, fvars, envvars, pc, how, exit_code, i, pfds, selvars, procs,
                   forked, proc, cvars>>

\* main.rs:169, 185: result.procs.push(proc_res)
PushProcRes ==
    /\ pc = "clean_up_in_parent"
    /\ k > specs[IndexOf(proc)].nfds
    /\ result' = [result EXCEPT !.procs =
                     Append(@, [pid |-> proc, status |-> child[IndexOf(proc)].code,
                                fds |-> proc_res])]
    /\ pc' = "wait"
    /\ UNCHANGED <<pipe, fvars, envvars, how, exit_code, i, k, pfds, selvars, procs,
                   forked, proc, proc_res, cvars>>

\* an exit code that ignores result.errors
FinalExitCode_mut(errors) == ExitOK

\* main.rs:191: if result.errors.len() > 0 { 1 } else { exitcode::OK }
FinalExitCode(errors) == IF Len(errors) > 0 THEN ExitErrors ELSE ExitOK

\* main.rs:144, 188-191: the wait loop is over; print the result and exit
FinalExit ==
    /\ pc = "wait"
    /\ procs = {}
    /\ Exit("final", FinalExitCode(result.errors))
    /\ UNCHANGED <<pipe, fvars, envvars, i, k, pfds, selvars, procs, forked, proc,
                   proc_res, result, cvars>>

(***************************************************************************)
(* main in a forked child (child_pid == 0), main.rs:76-112.                *)
(***************************************************************************)
\* the process of child c has terminated with exit code code: its fds close
Terminated(c, code) ==
    [c EXCEPT !.st = "zombie", !.code = code, !.err_r = FALSE, !.err_w = FALSE,
              !.alias = FALSE, !.pend = <<>>]

\* main.rs:80-82: error(msg) = fdio::write_str(err_write_fd, msg).unwrap(), up
\* to write_usize; the write fails with EBADF when the number of err_w is not
\* open in the child
ErrorCall(c, msg) ==
    IF (c.err_w \/ c.alias) /\ write(SysWrite(write_usize(Len(msg))), UsizeBytes) = "Ok"
    THEN [c EXCEPT !.pend = msg]
    ELSE Terminated(c, ExitPanic)

\* the bytes error(msg) puts into the error pipe with write_usize: none when
\* err_write_fd is not the pipe
ErrorBytes(c, msg) == IF c.err_w THEN write_usize(Len(msg)) ELSE <<>>

\* main.rs:84-86: sys::close(err_read_fd).unwrap(); let mut ok = true
ChildCloseErrR(j) ==
    /\ child[j].st = "start"
    /\ child' = [child EXCEPT ![j] =
                    IF child[j].err_r
                    THEN [@ EXCEPT !.st = "set_up", !.k = 1, !.ok = TRUE, !.err_r = FALSE]
                    ELSE Terminated(@, ExitPanic)]
    /\ UNCHANGED <<pipe, fvars, envvars, mvars, chan>>

\* main.rs:88-93: one fd.set_up_in_child(); on Err, error(..) and ok = false
ChildSetUp(j) ==
    /\ child[j].st = "set_up"
    /\ child[j].pend = <<>>
    /\ child[j].k <= specs[j].nfds
    /\ \E r \in {"Ok", "Err"} :
          LET c == [child[j] EXCEPT !.setups = @ + 1]
          IN  IF r = "Ok"
              THEN /\ child' = [child EXCEPT ![j] = [c EXCEPT !.k = @ + 1]]
                   /\ UNCHANGED pipe
              ELSE /\ child' = [child EXCEPT ![j] =
                                   ErrorCall([c EXCEPT !.fails = @ + 1], MsgSetUp(c.k))]
                   /\ pipe' = pipe \o ErrorBytes(c, MsgSetUp(c.k))
    /\ UNCHANGED <<fvars, envvars, mvars, chan>>

\* main.rs:94-97: if !ok { exit(OSERR) }, else go on to execve
ChildSetUpDone(j) ==
    /\ child[j].st = "set_up"
    /\ child[j].pend = <<>>
    /\ child[j].k > specs[j].nfds
    /\ child' = [child EXCEPT ![j] =
                    IF ~child[j].ok THEN Terminated(@, ExitOSERR)
                    ELSE [@ EXCEPT !.st = "exec"]]
    /\ UNCHANGED <<pipe, fvars, envvars, mvars, chan>>

\* main.rs:98-102: sys::execve(..): on success the program image replaces main
\* and the inherited err_w is released; on failure error("exec: ..")
ChildExecve(j) ==
    /\ child[j].st = "exec"
    /\ LET c == [child[j] EXCEPT !.execs = @ + 1]
       IN  \/ /\ child' = [child EXCEPT ![j] =
                              [c EXCEPT !.st = "running", !.err_w = FALSE,
                                        !.alias = FALSE]]
              /\ UNCHANGED pipe
           \/ /\ child' = [child EXCEPT ![j] =
                              ErrorCall([c EXCEPT !.st = "exec_err",
                                                  !.exec_failed = TRUE], MsgExec)]
              /\ pipe' = pipe \o ErrorBytes(c, MsgExec)
    /\ UNCHANGED <<fvars, envvars, mvars, chan>>

\* the rest of error(msg): write(fd, bytes) of write_str; then the statement
\* after the call: ok = false, and the loop or the code after exec goes on
ChildWritePayload(j) ==
    /\ child[j].pend /= <<>>
    /\ LET c    == child[j]
           res  == write(SysWrite(c.pend), Len(c.pend))
           done == [c EXCEPT !.pend = <<>>, !.ok = FALSE,
                             !.frames = IF c.err_w THEN @ + 1 ELSE @]
       IN  /\ pipe' = IF c.err_w THEN pipe \o c.pend ELSE pipe
           /\ chan' = IF c.err_w THEN Append(chan, c.pend) ELSE chan
           /\ child' = [child EXCEPT ![j] =
                 CASE res /= "Ok"          -> Terminated(c, ExitPanic)
                   [] c.st = "exec_err"    -> [done EXCEPT !.st = "clean_up", !.k = 1]
                   [] OTHER                -> [done EXCEPT !.k = @ + 1]]
    /\ UNCHANGED <<fvars, envvars, mvars>>

\* main.rs:104-109: one fd.clean_up_in_child(); on Err, error(..) and ok = false
ChildCleanUp(j) ==
    /\ child[j].st = "clean_up"
    /\ child[j].pend = <<>>
    /\ child[j].k <= specs[j].nfds
    /\ \E r \in {"Ok", "Err"} :
          LET c == [child[j] EXCEPT !.cleanups = @ + 1]
          IN  IF r = "Ok"
              THEN /\ child' = [child EXCEPT ![j] = [c EXCEPT !.k = @ + 1]]
                   /\ UNCHANGED pipe
              ELSE /\ child' = [child EXCEPT ![j] = ErrorCall(c, MsgCleanUp(c.k))]
                   /\ pipe' = pipe \o ErrorBytes(c, MsgCleanUp(c.k))
    /\ UNCHANGED <<fvars, envvars, mvars, chan>>

\* main.rs:111: the code of std::process::exit after a failed exec
ChildExitCode(ok) == IF ok THEN ExitOK ELSE ExitOSERR

\* the child branch without its last line: the child goes on at main.rs:114
ChildExit_mut(j) ==
    /\ child[j].st = "clean_up"
    /\ child[j].pend = <<>>
    /\ child[j].k > specs[j].nfds
    /\ child' = [child EXCEPT ![j].st = "parent_code"]
    /\ UNCHANGED <<pipe, fvars, envvars, mvars, chan>>

\* main.rs:111: std::process::exit(if ok { OK } else { OSERR })
ChildExit(j) ==
    /\ child[j].st = "clean_up"
    /\ child[j].pend = <<>>
    /\ child[j].k > specs[j].nfds
    /\ child' = [child EXCEPT ![j] = Terminated(@, ChildExitCode(child[j].ok))]
    /\ UNCHANGED <<pipe, fvars, envvars, mvars, chan>>

\* the program the child exec'd terminates; its status is not followed, 0
\* stands for any
ImageExit(j) ==
    /\ child[j].st = "running"
    /\ child' = [child EXCEPT ![j] = Terminated(@, ExitOK)]
    /\ UNCHANGED <<pipe, fvars, envvars, mvars, chan>>

ChildStep(j) ==
    \/ ChildCloseErrR(j)
    \/ ChildSetUp(j)
    \/ ChildSetUpDone(j)
    \/ ChildExecve(j)
    \/ ChildWritePayload(j)
    \/ ChildCleanUp(j)
    \/ ChildExit(j)
    \/ ImageExit(j)

\* the steps of main in the parent that the environment does not force
SupervisorStep ==
    \/ CreateErrPipe
    \/ BuildFds
    \/ LaunchDone
    \/ Fork
    \/ CloseErrW
    \/ SetUpInParent
    \/ InsertProc
    \/ SelectLoopDone
    \/ SelectErrors
    \/ SelectErrorsPayload
    \/ Wait4
    \/ CleanUpInParent
    \/ PushProcRes
    \/ FinalExit

Next ==
    \/ SupervisorStep
    \/ SelectInterrupted
    \/ SelectFailed
    \/ Wait4Failed
    \/ \E j \in Children : ChildStep(j)

Spec == Init /\ [][Next]_vars

\* the parent and each child are scheduled processes: a step that stays
\* possible is taken; failures of select and wait4 and signals are not forced
FairSpec ==
    /\ Spec
    /\ WF_vars(SupervisorStep)
    /\ \A j \in Children : WF_vars(ChildStep(j))

(***************************************************************************)
(* SpecFrame: the processes of Writers call write_str on the write end, one    *)
(* reader calls read_str on the read end until it fails.                   *)
(***************************************************************************)
\* the processes holding the write end: two children
Writers == {1, 2}

\* the characters strings are made of, as UTF-8: "A", "e-acute"
Chars == {<<65>>, <<195, 169>>}

RECURSIVE CharSeqs(_)
CharSeqs(n) ==
    IF n = 0 THEN {<<>>}
    ELSE CharSeqs(n - 1) \cup
         {cs \o <<c>> : cs \in {x \in CharSeqs(n - 1) : Len(x) = n - 1}, c \in Chars}

\* every string of at most MaxStrLen characters (str::as_bytes)
Strings == {Flatten(cs) : cs \in CharSeqs(MaxStrLen)}

AnyWriterOpen == \E w \in Writers : wphase[w] \in {"len", "payload"}

InitFrame ==
    /\ pipe = <<>>
    /\ wq0 \in {q \in [Writers -> SeqsUpTo(Strings, MaxFrames)] :
                    Len(Flatten([w \in Writers |-> q[w]])) <= MaxFrames}
    /\ wq = wq0
    /\ wphase = [w \in Writers |-> "len"]
    /\ rphase = "len"
    /\ rlen = 0
    /\ rgot = <<>>
    /\ IdleSupervisor

\* write_str, first half: write_usize(fd, bytes.len())?
WriteStrLen(w) ==
    /\ wphase[w] = "len"
    /\ wq[w] /= <<>>
    /\ LET data == write_usize(Len(Head(wq[w])))
           res  == write(SysWrite(data), Len(data))
       IN  /\ pipe' = pipe \o data
           /\ wphase' = [wphase EXCEPT ![w] = IF res = "Ok" THEN "payload" ELSE "failed"]
    /\ UNCHANGED <<wq0, wq, rphase, rlen, rgot, svars>>

\* write_str, second half: write(fd, bytes)
WriteStrPayload(w) ==
    /\ wphase[w] = "payload"
    /\ LET data == Head(wq[w])
           res  == write(SysWrite(data), Len(data))
       IN  /\ pipe' = pipe \o data
           /\ wphase' = [wphase EXCEPT ![w] = IF res = "Ok" THEN "len" ELSE "failed"]
           /\ wq' = [wq EXCEPT ![w] = Tail(wq[w])]
    /\ UNCHANGED <<wq0, rphase, rlen, rgot, svars>>

\* the writer has written all its frames and exits, closing its write end
WriterExit(w) ==
    /\ wphase[w] = "len"
    /\ wq[w] = <<>>
    /\ wphase' = [wphase EXCEPT ![w] = "closed"]
    /\ UNCHANGED <<pipe, wq0, wq, rphase, rlen, rgot, svars>>

\* read_str, first half: let len = read_usize(fd)?
ReadStrLen ==
    /\ rphase = "len"
    /\ SysReadReady(pipe, UsizeBytes, AnyWriterOpen)
    /\ LET n == SysRead(pipe, UsizeBytes)
           r == read_usize(n, Take(pipe, n))
       IN  /\ pipe' = Drop(pipe, n)
           /\ rphase' = CASE r.tag = "Ok"    -> "payload"
                          [] r.tag = "Eof"   -> "eof"
                          [] r.tag = "OsErr" -> "oserr"
                          [] OTHER           -> "panic"
           /\ rlen' = r.val
    /\ UNCHANGED <<wq0, wq, wphase, rgot, svars>>

\* read_str, second half: read(fd, &mut buf, len)?; from_utf8_lossy
ReadStrPayload ==
    /\ rphase = "payload"
    /\ SysReadReady(pipe, rlen, AnyWriterOpen)
    /\ LET n == SysRead(pipe, rlen)
           r == read(n, rlen)
       IN  /\ pipe' = Drop(pipe, n)
           /\ rphase' = CASE r = "Ok"  -> "len"
                          [] r = "Eof" -> "eof"
                          [] OTHER     -> "panic"
           /\ rgot' = IF r = "Ok" THEN Append(rgot, from_utf8_lossy(Take(pipe, n)))
                      ELSE rgot
    /\ rlen' = 0
    /\ UNCHANGED <<wq0, wq, wphase, svars>>

NextFrame ==
    \/ \E w \in Writers : WriteStrLen(w)
    \/ \E w \in Writers : WriteStrPayload(w)
    \/ \E w \in Writers : WriterExit(w)
    \/ ReadStrLen
    \/ ReadStrPayload

SpecFrame == InitFrame /\ [][NextFrame]_vars

(***************************************************************************)
(* Properties of Spec.                                                     *)
(***************************************************************************)
Range(s) == {s[n] : n \in DOMAIN s}

\* the supervisor process has terminated
Exited == pc = "exited"

\* main ran to its last line, std::process::exit at main.rs:191
FinalExited == pc = "exited" /\ how = "final"

\* the places where main ends because a system call or create_fd failed
OsFailures == {"pipe", "create_fd", "fork", "select", "wait4"}

\* every fd key of the input parses
ValidInput == \A n \in DOMAIN specs : ~specs[n].badkey

\* the pids that have a ProcRes in result.procs
ResultPids == {result.procs[n].pid : n \in DOMAIN result.procs}

\* the children that fork created
Forked == {j \in Children : child[j].st /= "none"}

\* s holds t as a run of consecutive elements
HoldsRun(s, t) ==
    \E m \in 0..Len(s) : m + Len(t) <= Len(s) /\ SubSeq(s, m + 1, m + Len(t)) = t

\* C1: when the supervisor exits, other than on a failed system call or an
\* fd key that does not parse, the pids with a ProcRes in result.procs are
\* exactly the pids fork returned, each once.
C1_ResultPidsAreForkedPids ==
    (Exited /\ how \notin OsFailures \cup {"parse_fd"}) =>
        /\ ResultPids = Range(forked)
        /\ Len(result.procs) = Cardinality(ResultPids)

\* C2: at the final exit of main the exit code is 0 iff result.errors is empty
\* and no child wrote a frame to the error pipe, and the frames the children
\* wrote are in result.errors, in the order written.
C2_ExitCodeIffNoErrors ==
    FinalExited =>
        /\ exit_code = ExitOK <=> (result.errors = <<>> /\ chan = <<>>)
        /\ HoldsRun(result.errors, chan)
        /\ pipe = <<>>

C2_Witness ==
    /\ FinalExited
    /\ exit_code = ExitErrors
    /\ chan /= <<>>
    /\ result.errors = chan

\* C3: for every input whose fd keys parse (the empty list included), unless
\* a system call fails, every terminated child is eventually reaped and the
\* supervisor eventually reaches its final exit.
C3_ReapAndExitEventually ==
    ValidInput =>
        <>(/\ Exited
           /\ how \in OsFailures \cup {"final"}
           /\ how = "final" => \A j \in Forked : child[j].st = "reaped")

\* C4: a child calls set_up_in_child on every FdManager before execve, also
\* after a failure; each failure writes one frame to err_w; a child with a
\* failed setup exits with OSERR and never calls execve.
C4_SetUpThenExec ==
    \A j \in Forked :
        LET c == child[j]
        IN  /\ c.execs > 0 => (c.setups = specs[j].nfds /\ c.fails = 0)
            /\ (c.st \in {"zombie", "reaped"} /\ c.fails > 0) =>
                   /\ c.setups = specs[j].nfds
                   /\ c.frames = c.fails
                   /\ c.execs = 0
                   /\ c.code = ExitOSERR

\* C5: a child in which execve returned has, when it exits, written the exec
\* frame, called clean_up_in_child on every FdManager and exits with OSERR;
\* clean_up_in_child is called only after the exec frame was written.
C5_ExecFailurePath ==
    \A j \in Forked :
        LET c == child[j]
        IN  /\ c.cleanups > 0 => (c.exec_failed /\ c.frames > 0)
            /\ (c.st \in {"zombie", "reaped"} /\ c.exec_failed) =>
                   /\ c.frames > 0
                   /\ c.cleanups = specs[j].nfds
                   /\ c.code = ExitOSERR

\* C6: on every path on which no system call fails (an fd key that does not
\* parse and the unwraps of the launch loop included), when the supervisor
\* process has terminated every child it forked has been reaped and the
\* LiveProc table is empty.
C6_ExitsOnlyAfterAllReaped ==
    (Exited /\ how \notin OsFailures) =>
        /\ \A j \in Forked : child[j].st = "reaped"
        /\ procs = {}

\* C9: at the final exit of main both ends of the error pipe that main
\* opened have been closed in the parent.
C9_FdsClosedAtExit == FinalExited => pfds = {}

\* C10: a step in which select returns Interrupted leaves main in the select
\* loop and leaves result, the selecter and the LiveProc table unchanged;
\* and a run with an interruption that reaches the final exit has recorded
\* every child.
C10_InterruptedIsBenign ==
    [][/\ intr' /= intr =>
            /\ pc' = "select"
            /\ result' = result
            /\ readers' = readers
            /\ read_fds' = read_fds
            /\ procs' = procs
       /\ (FinalExited' /\ intr') => ResultPids' = Range(forked')]_vars

C10_Witness ==
    /\ FinalExited
    /\ intr
    /\ Len(result.procs) = 1
    /\ exit_code = ExitOK

\* C11: whenever main is about to call close(err_write_fd) the write end of
\* the error pipe is open in the parent: the close is never attempted on the
\* descriptor already closed, for any number of ProcSpecs.
C11_ErrWClosedOnce == pc = "close_err_w" => ErrW \in pfds

\* C12: for every input, the empty list included, the parent does not hold
\* the write end of the error pipe while it is in the select loop.
C12_ErrWClosedAtSelect == pc \in {"select", "read_err"} => ErrW \notin pfds

\* C13: fork is called only while the parent holds err_w open, so every child
\* starts with the write end of the error pipe open.
C13_ChildrenInheritErrW ==
    /\ pc = "fork" => ErrW \in pfds
    /\ \A j \in Forked : child[j].st = "start" => child[j].err_w

\* C14: remove_reader(err_r) is never called when err_r is not a reader of the
\* selecter, whatever the number of reaps; after the first reap the reader is
\* gone and the frames of the children are in result.errors, as one run.
C14_ErrorsDrainedOnce ==
    /\ ~(Exited /\ how = "remove_reader")
    /\ result.procs /= <<>> =>
           /\ ErrR \notin DOMAIN readers
           /\ HoldsRun(result.errors, chan)

\* C15: a step of the wait loop that reaps a pid that is not in procs leaves
\* procs, result.procs, result.errors and the selecter unchanged and leaves
\* main in the wait loop.
C15_UnknownPidSkipped ==
    [][stray' /= stray =>
           /\ pc = "wait"
           /\ pc' = "wait"
           /\ procs' = procs
           /\ procs' /= {}
           /\ result' = result
           /\ readers' = readers
           /\ read_fds' = read_fds
           /\ proc_res' = proc_res]_vars

C15_Witness ==
    /\ FinalExited
    /\ stray = "reaped"
    /\ Len(result.procs) = 1
    /\ \A j \in Forked : child[j].st = "reaped"

\* C16: a wait4 that fails with Interrupted while procs is not empty does not
\* end the supervisor.
C16_Wait4Retried == ~(Exited /\ how = "wait4" /\ procs /= {})

\* C18: in a reap, clean_up_in_parent is called on the FdManagers 1..nfds of
\* the child in turn, once each; a call adds nothing (Ok(None)), or the result
\* under its fd (Ok(Some)), or the sentinel under its fd and one message to
\* result.errors (Err); the ProcRes pushed holds at most one entry per manager.
C18_CleanUpOncePerManager ==
    [][/\ (pc /= "clean_up_in_parent" /\ pc' = "clean_up_in_parent") =>
              /\ k' = 1
              /\ DOMAIN proc_res' = {}
       /\ (pc = "clean_up_in_parent" /\ pc' = "clean_up_in_parent") =>
              \/ /\ k' = k
                 /\ proc_res' = proc_res
                 /\ result' = result
              \/ /\ k <= specs[IndexOf(proc)].nfds
                 /\ k' = k + 1
                 /\ \/ /\ proc_res' = proc_res
                       /\ result' = result
                    \/ /\ DOMAIN proc_res' = DOMAIN proc_res \cup {k}
                       /\ \A fd \in DOMAIN proc_res : proc_res'[fd] = proc_res[fd]
                       /\ \/ /\ proc_res'[k] = "result"
                             /\ result' = result
                          \/ /\ proc_res'[k] = "None"
                             /\ result'.procs = result.procs
                             /\ result'.errors =
                                    Append(result.errors, MsgCleanUp(k))
       /\ (pc = "clean_up_in_parent" /\ pc' /= "clean_up_in_parent") =>
              /\ pc' = "wait"
              /\ k = specs[IndexOf(proc)].nfds + 1
              /\ result'.errors = result.errors
              /\ result'.procs = Append(result.procs,
                                        [pid |-> proc,
                                         status |-> child[IndexOf(proc)].code,
                                         fds |-> proc_res])
              /\ DOMAIN proc_res \subseteq 1..specs[IndexOf(proc)].nfds]_vars

C18_Witness ==
    /\ FinalExited
    /\ specs[1].nfds = MaxFds
    /\ Len(result.procs) = 1
    /\ DOMAIN result.procs[1].fds = {1}
    /\ result.procs[1].fds[1] = "None"
    /\ result.errors = <<MsgCleanUp(1)>>

\* C19: a set_up_in_parent that fails appends one message to result.errors and
\* nothing else; the loop goes on over the remaining managers and is left only
\* by recording the child in procs; the reap of a child ends only after
\* clean_up_in_parent ran on every manager, whatever its setup returned.
C19_SetUpFailureIsRecorded ==
    [][/\ (pc = "set_up_in_parent" /\ pc' = "set_up_in_parent") =>
              /\ procs' = procs
              /\ result'.procs = result.procs
              /\ \/ /\ k' = k
                    /\ result' = result
                 \/ /\ k <= specs[i].nfds
                    /\ k' = k + 1
                    /\ \/ result'.errors = result.errors
                       \/ result'.errors = Append(result.errors, MsgSetUp(k))
       /\ (pc = "set_up_in_parent" /\ pc' /= "set_up_in_parent") =>
              /\ pc' = "launch"
              /\ k = specs[i].nfds + 1
              /\ procs' = procs \cup {PidOf(i)}
              /\ result' = result
       /\ (pc = "clean_up_in_parent" /\ pc' = "wait") =>
              /\ proc \in Range(forked)
              /\ k > specs[IndexOf(proc)].nfds]_vars

C19_Witness ==
    /\ FinalExited
    /\ specs[1].nfds = MaxFds
    /\ chan = <<>>
    /\ result.errors = <<MsgSetUp(1)>>
    /\ Len(result.procs) = 1
    /\ result.procs[1].pid = PidOf(1)
    /\ DOMAIN result.procs[1].fds = 1..MaxFds

\* the positions of a child: in the child branch of main (main.rs:76-112), in
\* the program it exec'd, terminated, reaped
ChildPositions ==
    {"start", "set_up", "exec", "exec_err", "clean_up", "running", "zombie", "reaped"}

\* C20: a forked child is in the child branch of main, in the program it
\* exec'd, or terminated, and unless terminated it has a next step there; fork
\* is called at most once per ProcSpec and each call made one child.
C20_ChildNeverReturns ==
    /\ Len(forked) <= Len(specs)
    /\ Len(forked) = Cardinality(Forked)
    /\ \A j \in Forked :
           /\ child[j].st \in ChildPositions
           /\ child[j].st \in {"zombie", "reaped"} \/ ENABLED ChildStep(j)

C20_Witness ==
    /\ FinalExited
    /\ specs[1].nfds = MaxFds
    /\ child[1].st = "reaped"
    /\ child[1].exec_failed
    /\ child[1].cleanups = MaxFds
    /\ child[1].code = ExitOSERR

(***************************************************************************)
(* Properties of SpecFrame.                                                *)
(***************************************************************************)
\* the frames the writers were asked to write
AllFrames == wq0[1] \o wq0[2]

\* at most one writer has frames to write
SingleWriter == \E w \in Writers : \A v \in Writers \ {w} : wq0[v] = <<>>

\* C7: with the writers' write calls interleaved in any order the reader
\* never fails on a malformed stream, every string it reads is one of the
\* frames written, and at end of file it has read a permutation of them.
C7_FramesIntact ==
    rphase /= "idle" =>
        /\ rphase /= "panic"
        /\ \A n \in DOMAIN rgot : Count(rgot, rgot[n]) <= Count(AllFrames, rgot[n])
        /\ rphase = "eof" => IsPermutation(rgot, AllFrames)

C17_ReadUsizeShort ==
    (rphase = "len" /\ SysReadReady(pipe, UsizeBytes, AnyWriterOpen)) =>
        LET n == SysRead(pipe, UsizeBytes)
            r == read_usize(n, Take(pipe, n))
        IN  /\ n = 0 => r.tag = "Eof"
            /\ n \in 1..(UsizeBytes - 1) => r.tag = "IoShort"
            /\ r.tag = "Ok" => n = UsizeBytes

====
